---- MODULE Spec2Model ----
(***************************************************************************)
(* Custom field validation, construction and serialization of jira-cli:    *)
(*   cmdcommon.ValidateCustomFields            (lenient check)             *)
(*   cmdcommon.ValidateAndFilterCustomFields   (strict validation)         *)
(*   jira.BuildCustomFieldsForTransition       (Builder + classification)  *)
(*   jira.transitionFieldsMarshaler.MarshalJSON (payload merge)            *)
(*   jira.Client.GetIssueTypeFields           (remote schema lookup)       *)
(* Strings are sequences of one-character strings, so that lowercasing,    *)
(* trimming, replacing, splitting and prefix tests are computed.           *)
(***************************************************************************)
EXTENDS Integers, Sequences, FiniteSets, TLC

\* ------------------------------------------------------------------ bounds
MaxRequested == 2
MaxConfigured == 2
MaxAvailable == 2

\* ------------------------------------------------------------- go strings
\* The characters that occur in the modelled inputs, in byte order.
AsciiOrder ==
    << "\t", " ", ",", "-", ".", "0", "1", "2", "5", "A", "B", "C", "F", "S", "X",
       "_", "a", "b", "c", "d", "e", "f", "g", "i", "j", "l", "m", "n", "o", "r",
       "s", "t", "u", "v", "x", "y", "z" >>

Chars == {AsciiOrder[i] : i \in DOMAIN AsciiOrder}

Rank(c) == CHOOSE i \in DOMAIN AsciiOrder : AsciiOrder[i] = c

UpperToLower ==
    [c \in {"A", "B", "C", "F", "S", "X"} |->
        CASE c = "A" -> "a" [] c = "B" -> "b" [] c = "C" -> "c"
          [] c = "F" -> "f" [] c = "S" -> "s" [] c = "X" -> "x"]

\* strings.ToLower
ToLower(s) == [i \in DOMAIN s |-> IF s[i] \in DOMAIN UpperToLower THEN UpperToLower[s[i]] ELSE s[i]]

IsSpace(c) == c \in {" ", "\t"}

RECURSIVE TrimLeft(_)
TrimLeft(s) == IF s # <<>> /\ IsSpace(Head(s)) THEN TrimLeft(Tail(s)) ELSE s

RECURSIVE TrimRight(_)
TrimRight(s) ==
    IF s # <<>> /\ IsSpace(s[Len(s)]) THEN TrimRight(SubSeq(s, 1, Len(s) - 1)) ELSE s

\* strings.TrimSpace
TrimSpace(s) == TrimRight(TrimLeft(s))

\* strings.ReplaceAll(s, old, new) for one-character old and new
ReplaceAll(s, old, new) == [i \in DOMAIN s |-> IF s[i] = old THEN new ELSE s[i]]

\* strings.HasPrefix
HasPrefix(s, prefix) == Len(s) >= Len(prefix) /\ SubSeq(s, 1, Len(prefix)) = prefix

\* the identifier of a configured or remote field, recomputed from its name
Identifier(name) == ReplaceAll(ToLower(TrimSpace(name)), " ", "-")

\* byte-wise string order, the order encoding/json writes map keys in
RECURSIVE StrLess(_, _)
StrLess(a, b) ==
    IF a = <<>> THEN b # <<>>
    ELSE IF b = <<>> THEN FALSE
    ELSE IF Head(a) = Head(b) THEN StrLess(Tail(a), Tail(b))
    ELSE Rank(Head(a)) < Rank(Head(b))

\* all orders in which a range loop may visit the keys of a map
Orders(S) ==
    {f \in [1..Cardinality(S) -> S] : \A i, j \in 1..Cardinality(S) : i # j => f[i] # f[j]}

Range(f) == {f[x] : x \in DOMAIN f}

\* -------------------------------------------------------------- data model
\* jira.IssueTypeField: Key, Name, Schema.DataType, Schema.Items
Field(name, key, dataType, items) ==
    [Name |-> name, Key |-> key, DataType |-> dataType, Items |-> items]

customFieldFormatOption == "option"
customFieldFormatArray == "array"
customFieldFormatNumber == "number"
customFieldFormatProject == "project"

CustomPrefix == <<"c", "u", "s", "t", "o", "m", "f", "i", "e", "l", "d", "_">>
KeyCF1 == CustomPrefix \o <<"1">>
KeyCF2 == CustomPrefix \o <<"2">>
KeySummary == <<"s", "u", "m", "m", "a", "r", "y">>
KeyAssignee == <<"a", "s", "s", "i", "g", "n", "e", "e">>
KeyResolution == <<"r", "e", "s", "o", "l", "u", "t", "i", "o", "n">>
KeyName == <<"n", "a", "m", "e">>
KeyValue == <<"v", "a", "l", "u", "e">>

\* a Go map[string]string: nil, or a function from names to raw values
EmptyKV == [n \in {} |-> <<>>]
NilMap == [isNil |-> TRUE, kv |-> EmptyKV]
MakeMap(f) == [isNil |-> FALSE, kv |-> f]
MapLen(m) == Cardinality(DOMAIN m.kv)

\* m[k] = v
MapPut(m, k, v) == (k :> v) @@ m

\* a Go slice of IssueTypeField: nil, or a sequence
NilSlice == [isNil |-> TRUE, s |-> <<>>]
MakeSlice(q) == [isNil |-> FALSE, s |-> q]

\* ------------------------------------------------------------ input pools
\* names a user may pass with --custom
NameLower == <<"a", "-", "b">>       \* the identifier of "A b"
NameUpper == <<"A", "-", "B">>       \* the same, typed in upper case
NameOther == <<"c">>
NameUnknown == <<"z">>               \* configured nowhere

RequestedNames == {NameLower, NameUpper, NameUnknown}
TransitionNames == {NameLower, NameUpper, NameOther, NameUnknown}

RawValues == { <<"5">>, <<"a", ",", " ", "b">> }
TransitionValues == RawValues \cup { <<"i", "n", "f">> }    \* parses to a float no JSON encodes

\* issue.fields.custom of the configuration file
ConfiguredPool ==
    { Field(<<"A", " ", "b">>, KeyCF1, "number", ""),
      Field(<<" ", "a", "-", "b", " ">>, KeyCF2, "option", ""),   \* same identifier, other key
      Field(<<"C">>, KeyCF1, "array", "string") }                \* same key, other identifier

TransitionPool ==
    ConfiguredPool \cup { Field(<<"C">>, KeyAssignee, "string", "") }   \* key of a static field

\* fields of the create screen of an issue type, as the remote returns them
AvailablePool ==
    { Field(<<"A", " ", "b">>, KeyCF1, "number", ""),
      Field(<<"X", " ", "y">>, KeyCF2, "option", ""),
      Field(<<"S">>, KeySummary, "string", ""),
      Field(<<>>, KeyCF2, "string", "") }                         \* a custom field without a name

IssueTypeNames == { <<"B", "u", "g">> }

\* raw values and schemas one classification is applied to
ClassifyValues ==
    { <<>>, <<"5">>, <<" ", "5">>, <<"1", ".", "5">>, <<"-", "2", "e", "3">>,
      <<"1", "e", "9", "9", "9">>, <<"i", "n", "f">>, <<"N", "a", "N">>, <<"x">>,
      <<"a", ",", " ", "b">>, <<" ", "a", " ", ",", "b", " ">>, <<",">>, <<"b", ",", ",", "a">> }

ClassifyDataTypes == {"string", "number", "option", "project", "array", "date", ""}

ClassifyItems == {"", "string", "option"}

ClassifySchemas == {Field(<<"C">>, KeyCF1, d, i) : d \in ClassifyDataTypes, i \in ClassifyItems}

SeqsUpTo(S, n) == UNION {[1..k -> S] : k \in 0..n}

MapsOver(names, values) ==
    {NilMap} \cup
    {MakeMap(f) : f \in UNION {[D -> values] :
                                  D \in {E \in SUBSET names : Cardinality(E) <= MaxRequested}}}

SlicesOver(pool) == {NilSlice} \cup {MakeSlice(q) : q \in SeqsUpTo(pool, MaxConfigured)}

AvailableSlices ==
    {MakeSlice(q) : q \in {r \in SeqsUpTo(AvailablePool, MaxAvailable) :
                              \A i, j \in DOMAIN r : i # j => r[i] # r[j]}}

\* what the createmeta endpoint may answer: issue types with their fields by key,
\* projects with their issue types, lists of projects
MaxIssueTypes == 2

ProjectKeys == { <<"P">>, <<"Q">> }
IssueTypeIDs == { <<"1">>, <<"2">>, <<"3">> }

FieldKeys == {KeyCF1, KeyCF2, KeySummary}

IssueTypePool ==
    { [ID |-> <<"1">>, Fields |-> (KeyCF1 :> Field(<<"A", " ", "b">>, KeyCF1, "number", ""))
                                  @@ (KeySummary :> Field(<<"S">>, KeySummary, "string", ""))],
      [ID |-> <<"2">>, Fields |-> (KeyCF2 :> Field(<<"X", " ", "y">>, KeyCF2, "option", ""))],
      [ID |-> <<"1">>, Fields |-> [k \in {} |-> Field(<<>>, <<>>, "", "")]] }

FirstProjects ==
    {[Key |-> <<"P">>, IssueTypes |-> l] : l \in SeqsUpTo(IssueTypePool, MaxIssueTypes)}

OtherProjects ==
    {[Key |-> <<"Q">>, IssueTypes |-> l] : l \in SeqsUpTo(IssueTypePool, 1)}

ProjectLists ==
    {<<>>} \cup {<<p>> : p \in FirstProjects}
           \cup {<<p, q>> : p \in FirstProjects, q \in OtherProjects}

\* ------------------------------------------------------ strconv.ParseFloat
DigitValue ==
    [c \in {"0", "1", "2", "3", "4", "5", "6", "7", "8", "9"} |->
        CASE c = "0" -> 0 [] c = "1" -> 1 [] c = "2" -> 2 [] c = "3" -> 3 [] c = "4" -> 4
          [] c = "5" -> 5 [] c = "6" -> 6 [] c = "7" -> 7 [] c = "8" -> 8 [] c = "9" -> 9]

IsDigit(c) == c \in DOMAIN DigitValue

RECURSIVE DigitsToNat(_)
DigitsToNat(ds) ==
    IF ds = <<>> THEN 0 ELSE 10 * DigitsToNat(SubSeq(ds, 1, Len(ds) - 1)) + DigitValue[ds[Len(ds)]]

IndexOf(s, cs) ==
    IF \E i \in DOMAIN s : s[i] \in cs
    THEN CHOOSE i \in DOMAIN s : s[i] \in cs /\ \A j \in 1..(i - 1) : s[j] \notin cs
    ELSE 0

NoNum == [cls |-> "none", neg |-> FALSE, mant |-> 0, exp |-> 0]
ParseError == [ok |-> FALSE, num |-> NoNum]

\* mant * 10^exp with mant not divisible by ten
RECURSIVE Normalize(_, _)
Normalize(mant, exp) ==
    IF mant = 0 THEN [mant |-> 0, exp |-> 0]
    ELSE IF mant % 10 = 0 THEN Normalize(mant \div 10, exp + 1)
    ELSE [mant |-> mant, exp |-> exp]

RECURSIVE NumDigits(_)
NumDigits(n) == IF n < 10 THEN 1 ELSE 1 + NumDigits(n \div 10)

InfinityWord == <<"i", "n", "f", "i", "n", "i", "t", "y">>

\* strconv.ParseFloat(s, 64) on decimal input: [sign] digits [. digits] [e [sign] digits],
\* with or without digits on either side of the point, and the special words inf,
\* infinity and nan in any letter case.  A value beyond the float64 range is an error
\* (ErrRange); a value below it rounds to zero without error.  Hexadecimal mantissas
\* need the letter p, which no modelled input has.
ParseFloat(s) ==
    LET signed == s # <<>> /\ Head(s) \in {"+", "-"}
        neg == s # <<>> /\ Head(s) = "-"
        body == IF signed THEN Tail(s) ELSE s
        low == ToLower(body)
        e == IndexOf(low, {"e"})
        mantStr == IF e = 0 THEN body ELSE SubSeq(body, 1, e - 1)
        expStr == IF e = 0 THEN <<>> ELSE SubSeq(body, e + 1, Len(body))
        dot == IndexOf(mantStr, {"."})
        intDigits == IF dot = 0 THEN mantStr ELSE SubSeq(mantStr, 1, dot - 1)
        fracDigits == IF dot = 0 THEN <<>> ELSE SubSeq(mantStr, dot + 1, Len(mantStr))
        expSigned == expStr # <<>> /\ Head(expStr) \in {"+", "-"}
        expDigits == IF expSigned THEN Tail(expStr) ELSE expStr
        mantOk == /\ \A i \in DOMAIN intDigits : IsDigit(intDigits[i])
                  /\ \A i \in DOMAIN fracDigits : IsDigit(fracDigits[i])
                  /\ Len(intDigits) + Len(fracDigits) > 0
        expOk == e = 0 \/ (expDigits # <<>> /\ \A i \in DOMAIN expDigits : IsDigit(expDigits[i]))
    IN  IF low \in {SubSeq(InfinityWord, 1, 3), InfinityWord}
        THEN [ok |-> TRUE, num |-> [cls |-> "inf", neg |-> neg, mant |-> 0, exp |-> 0]]
        ELSE IF ~signed /\ low = <<"n", "a", "n">>
        THEN [ok |-> TRUE, num |-> [cls |-> "nan", neg |-> FALSE, mant |-> 0, exp |-> 0]]
        ELSE IF ~(mantOk /\ expOk) THEN ParseError
        ELSE LET expVal == (IF expSigned /\ Head(expStr) = "-" THEN -1 ELSE 1) * DigitsToNat(expDigits)
                 n == Normalize(DigitsToNat(intDigits \o fracDigits), expVal - Len(fracDigits))
                 lead == NumDigits(n.mant) + n.exp - 1
             IN  IF n.mant # 0 /\ lead > 308 THEN ParseError
                 ELSE IF n.mant = 0 \/ lead < -324
                 THEN [ok |-> TRUE, num |-> [cls |-> "finite", neg |-> neg, mant |-> 0, exp |-> 0]]
                 ELSE [ok |-> TRUE, num |-> [cls |-> "finite", neg |-> neg, mant |-> n.mant, exp |-> n.exp]]

\* ----------------------------------------------------------- typed values
\* the dynamic values a customField map holds: string, customFieldTypeNumber,
\* customFieldTypeOption, customFieldTypeProject, []customFieldTypeOption, []string
TypedValue(kind, str, num, items) == [kind |-> kind, str |-> str, num |-> num, items |-> items]

\* strings.Split(s, sep) for a one-character separator
RECURSIVE Split(_, _)
Split(s, sep) ==
    LET i == IndexOf(s, {sep})
    IN  IF i = 0 THEN <<s>>
        ELSE <<SubSeq(s, 1, i - 1)>> \o Split(SubSeq(s, i + 1, Len(s)), sep)

\* Classify trimming the value of an option and of a project
ClassifyTrimmedOption(val, configured) ==
    CASE configured.DataType = customFieldFormatOption ->
            TypedValue("option", TrimSpace(val), NoNum, <<>>)
      [] configured.DataType = customFieldFormatProject ->
            TypedValue("project", TrimSpace(val), NoNum, <<>>)
      [] configured.DataType = customFieldFormatArray ->
            LET pieces == Split(TrimSpace(val), ",")
                trimmed == [i \in DOMAIN pieces |-> TrimSpace(pieces[i])]
            IN  IF configured.Items = customFieldFormatOption
                THEN TypedValue("optionlist", <<>>, NoNum, trimmed)
                ELSE TypedValue("stringlist", <<>>, NoNum, trimmed)
      [] configured.DataType = customFieldFormatNumber ->
            LET p == ParseFloat(val)
            IN  IF ~p.ok THEN TypedValue("string", val, NoNum, <<>>)
                ELSE TypedValue("number", <<>>, p.num, <<>>)
      [] OTHER -> TypedValue("string", val, NoNum, <<>>)

\* Classify trimming the whole value of an array but not its pieces
ClassifyUntrimmedPieces(val, configured) ==
    CASE configured.DataType = customFieldFormatOption ->
            TypedValue("option", val, NoNum, <<>>)
      [] configured.DataType = customFieldFormatProject ->
            TypedValue("project", val, NoNum, <<>>)
      [] configured.DataType = customFieldFormatArray ->
            LET pieces == Split(TrimSpace(val), ",")
            IN  IF configured.Items = customFieldFormatOption
                THEN TypedValue("optionlist", <<>>, NoNum, pieces)
                ELSE TypedValue("stringlist", <<>>, NoNum, pieces)
      [] configured.DataType = customFieldFormatNumber ->
            LET p == ParseFloat(val)
            IN  IF ~p.ok THEN TypedValue("string", val, NoNum, <<>>)
                ELSE TypedValue("number", <<>>, p.num, <<>>)
      [] OTHER -> TypedValue("string", val, NoNum, <<>>)

\* the switch on configured.Schema.DataType
Classify(val, configured) ==
    CASE configured.DataType = customFieldFormatOption ->
            TypedValue("option", val, NoNum, <<>>)
      [] configured.DataType = customFieldFormatProject ->
            TypedValue("project", val, NoNum, <<>>)
      [] configured.DataType = customFieldFormatArray ->
            LET pieces == Split(TrimSpace(val), ",")
                trimmed == [i \in DOMAIN pieces |-> TrimSpace(pieces[i])]
            IN  IF configured.Items = customFieldFormatOption
                THEN TypedValue("optionlist", <<>>, NoNum, trimmed)
                ELSE TypedValue("stringlist", <<>>, NoNum, trimmed)
      [] configured.DataType = customFieldFormatNumber ->
            LET p == ParseFloat(val)
            IN  IF ~p.ok THEN TypedValue("string", val, NoNum, <<>>)
                ELSE TypedValue("number", <<>>, p.num, <<>>)
      [] OTHER -> TypedValue("string", val, NoNum, <<>>)

\* ------------------------------------------- cmdcommon.ValidateCustomFields
\* fieldsMap: identifier -> configured.Name, a later schema overwriting an earlier one
RECURSIVE FieldsMap(_)
FieldsMap(q) ==
    IF q = <<>> THEN EmptyKV
    ELSE LET prev == FieldsMap(SubSeq(q, 1, Len(q) - 1))
             configured == q[Len(q)]
             identifier == Identifier(configured.Name)
         IN  MapPut(prev, identifier, configured.Name)

\* the lookup of one requested key in fieldsMap
LenientKnows(fieldsMap, key) == key \in DOMAIN fieldsMap

\* invalidCustomFields after the loop over fields, visited in `order`
RECURSIVE InvalidCustomFields(_, _)
InvalidCustomFields(fieldsMap, order) ==
    IF order = <<>> THEN <<>>
    ELSE LET rest == InvalidCustomFields(fieldsMap, SubSeq(order, 1, Len(order) - 1))
             key == order[Len(order)]
         IN  IF ~LenientKnows(fieldsMap, key) THEN Append(rest, key) ELSE rest

NoWarning == [warned |-> FALSE, names |-> <<>>]

\* the warning cmdutil.Warn prints, or none; the function returns nothing
ValidateCustomFieldsResult(fields, configuredFields, order) ==
    IF MapLen(fields) = 0 THEN NoWarning
    ELSE LET invalidCustomFields == InvalidCustomFields(FieldsMap(configuredFields.s), order)
         IN  IF Len(invalidCustomFields) > 0
             THEN [warned |-> TRUE, names |-> invalidCustomFields]
             ELSE NoWarning

\* ---------------------------------- cmdcommon.ValidateAndFilterCustomFields
\* configuredMap: identifier -> field.Key, a later schema overwriting an earlier one
RECURSIVE ConfiguredMap(_)
ConfiguredMap(q) ==
    IF q = <<>> THEN EmptyKV
    ELSE LET prev == ConfiguredMap(SubSeq(q, 1, Len(q) - 1))
             field == q[Len(q)]
             identifier == Identifier(field.Name)
         IN  MapPut(prev, identifier, field.Key)

\* the keys of availableMap
AvailableKeys(q) == {q[i].Key : i \in DOMAIN q}

\* the lookup of one requested name in configuredMap
StrictKnows(configuredMap, requestedName) == ToLower(requestedName) \in DOMAIN configuredMap

\* Partition with the key recorded before the lookup is tested: an unknown name
\* records the zero value of the lookup
RECURSIVE PartitionKeyBeforeTest(_, _, _, _)
PartitionKeyBeforeTest(requested, configuredMap, availableKeys, order) ==
    IF order = <<>>
    THEN [validFields |-> EmptyKV, invalidFields |-> <<>>, invalidFieldKeys |-> <<>>]
    ELSE LET acc == PartitionKeyBeforeTest(requested, configuredMap, availableKeys,
                                           SubSeq(order, 1, Len(order) - 1))
             requestedName == order[Len(order)]
         IN  IF ToLower(requestedName) \notin DOMAIN configuredMap
             THEN [acc EXCEPT !.invalidFields = Append(@, requestedName),
                              !.invalidFieldKeys = Append(@, <<>>)]
             ELSE LET fieldKey == configuredMap[ToLower(requestedName)]
                  IN  IF fieldKey \in availableKeys
                      THEN [acc EXCEPT !.validFields =
                               MapPut(@, requestedName, requested.kv[requestedName])]
                      ELSE [acc EXCEPT !.invalidFields = Append(@, requestedName),
                                       !.invalidFieldKeys = Append(@, fieldKey)]

\* validFields, invalidFields and invalidFieldKeys after the loop over requested
RECURSIVE Partition(_, _, _, _)
Partition(requested, configuredMap, availableKeys, order) ==
    IF order = <<>>
    THEN [validFields |-> EmptyKV, invalidFields |-> <<>>, invalidFieldKeys |-> <<>>]
    ELSE LET acc == Partition(requested, configuredMap, availableKeys,
                              SubSeq(order, 1, Len(order) - 1))
             requestedName == order[Len(order)]
         IN  IF ~StrictKnows(configuredMap, requestedName)
             THEN [acc EXCEPT !.invalidFields = Append(@, requestedName)]
             ELSE LET fieldKey == configuredMap[ToLower(requestedName)]
                  IN  IF fieldKey \in availableKeys
                      THEN [acc EXCEPT !.validFields =
                               MapPut(@, requestedName, requested.kv[requestedName])]
                      ELSE [acc EXCEPT !.invalidFields = Append(@, requestedName),
                                       !.invalidFieldKeys = Append(@, fieldKey)]

\* AvailableCustomFields without the test for the customfield_ prefix
RECURSIVE AvailableFieldsUnfiltered(_)
AvailableFieldsUnfiltered(q) ==
    IF q = <<>> THEN <<>>
    ELSE LET rest == AvailableFieldsUnfiltered(SubSeq(q, 1, Len(q) - 1))
             field == q[Len(q)]
         IN  IF field.Name # <<>> THEN Append(rest, Identifier(field.Name)) ELSE rest

\* availableCustomFields: what the message lists for each remote field it shows
RECURSIVE AvailableCustomFields(_)
AvailableCustomFields(q) ==
    IF q = <<>> THEN <<>>
    ELSE LET rest == AvailableCustomFields(SubSeq(q, 1, Len(q) - 1))
             field == q[Len(q)]
         IN  IF HasPrefix(field.Key, CustomPrefix) /\ field.Name # <<>>
             THEN Append(rest, Identifier(field.Name))
             ELSE rest

NoError ==
    [isNil |-> TRUE, issueType |-> <<>>, invalidFields |-> <<>>,
     hasFieldIDs |-> FALSE, fieldIDs |-> <<>>,
     hasAvailable |-> FALSE, availableCustomFields |-> <<>>]

\* errMsg, section by section: the header with the issue type and the invalid names,
\* the "Field IDs" line when there is one, the "Available custom fields" list or the
\* sentence that there are none.  fmt.Errorf(errMsg) renders it unchanged as long as
\* it holds no percent sign, and no modelled input has one.
ErrorMessage(issueTypeName, invalidFields, invalidFieldKeys, availableCustomFields) ==
    [isNil |-> FALSE, issueType |-> issueTypeName, invalidFields |-> invalidFields,
     hasFieldIDs |-> Len(invalidFieldKeys) > 0, fieldIDs |-> invalidFieldKeys,
     hasAvailable |-> Len(availableCustomFields) > 0,
     availableCustomFields |-> availableCustomFields]

\* ValidateAndFilterCustomFields returning the valid part together with the error
ValidateAndFilterPartial(requested, available, configuredFields, issueTypeName, order) ==
    IF MapLen(requested) = 0 THEN [filtered |-> requested, err |-> NoError]
    ELSE LET p == Partition(requested, ConfiguredMap(configuredFields.s),
                            AvailableKeys(available.s), order)
         IN  [filtered |-> MakeMap(p.validFields),
              err |-> IF Len(p.invalidFields) > 0
                      THEN ErrorMessage(issueTypeName, p.invalidFields, p.invalidFieldKeys,
                                        AvailableCustomFields(available.s))
                      ELSE NoError]

ValidateAndFilterCustomFieldsResult(requested, available, configuredFields, issueTypeName, order) ==
    IF MapLen(requested) = 0 THEN [filtered |-> requested, err |-> NoError]
    ELSE LET p == Partition(requested, ConfiguredMap(configuredFields.s),
                            AvailableKeys(available.s), order)
         IN  IF Len(p.invalidFields) > 0
             THEN [filtered |-> NilMap,
                   err |-> ErrorMessage(issueTypeName, p.invalidFields, p.invalidFieldKeys,
                                        AvailableCustomFields(available.s))]
             ELSE [filtered |-> MakeMap(p.validFields), err |-> NoError]

\* ------------------------------------- jira.BuildCustomFieldsForTransition
\* BuildForKey comparing the identifier with the key as typed
RECURSIVE BuildForKeyAsTyped(_, _, _, _)
BuildForKeyAsTyped(cf, key, val, q) ==
    IF q = <<>> THEN cf
    ELSE LET before == BuildForKeyAsTyped(cf, key, val, SubSeq(q, 1, Len(q) - 1))
             configured == q[Len(q)]
         IN  IF Identifier(configured.Name) # key THEN before
             ELSE MapPut(before, configured.Key, Classify(val, configured))

\* BuildForKey leaving the inner loop at the first match
RECURSIVE BuildForKeyFirstMatch(_, _, _, _)
BuildForKeyFirstMatch(cf, key, val, q) ==
    IF q = <<>> THEN cf
    ELSE LET before == BuildForKeyFirstMatch(cf, key, val, SubSeq(q, 1, Len(q) - 1))
             configured == q[Len(q)]
         IN  IF \/ Identifier(configured.Name) # ToLower(key)
                \/ \E i \in 1..(Len(q) - 1) : Identifier(q[i].Name) = ToLower(key)
             THEN before
             ELSE MapPut(before, configured.Key, Classify(val, configured))

\* BuildForKey keeping an entry that is already in the set
RECURSIVE BuildForKeyKeepFirst(_, _, _, _)
BuildForKeyKeepFirst(cf, key, val, q) ==
    IF q = <<>> THEN cf
    ELSE LET before == BuildForKeyKeepFirst(cf, key, val, SubSeq(q, 1, Len(q) - 1))
             configured == q[Len(q)]
         IN  IF Identifier(configured.Name) # ToLower(key) \/ configured.Key \in DOMAIN cf
             THEN before
             ELSE MapPut(before, configured.Key, Classify(val, configured))

\* the inner loop over configuredFields for one requested key; there is no break
RECURSIVE BuildForKey(_, _, _, _)
BuildForKey(cf, key, val, q) ==
    IF q = <<>> THEN cf
    ELSE LET before == BuildForKey(cf, key, val, SubSeq(q, 1, Len(q) - 1))
             configured == q[Len(q)]
             identifier == Identifier(configured.Name)
         IN  IF identifier # ToLower(key) THEN before
             ELSE MapPut(before, configured.Key, Classify(val, configured))

\* the outer loop over fields, visited in `order`
RECURSIVE BuildLoop(_, _, _)
BuildLoop(fields, q, order) ==
    IF order = <<>> THEN EmptyKV
    ELSE LET key == order[Len(order)]
         IN  BuildForKey(BuildLoop(fields, q, SubSeq(order, 1, Len(order) - 1)),
                         key, fields.kv[key], q)

NilCustomField == [isNil |-> TRUE, m |-> EmptyKV]

\* BuildCustomFieldsForTransitionResult returning nil only when both arguments are empty
BuildNilWhenBothEmpty(fields, configuredFields, order) ==
    IF MapLen(fields) = 0 /\ Len(configuredFields.s) = 0 THEN NilCustomField
    ELSE [isNil |-> FALSE, m |-> BuildLoop(fields, configuredFields.s, order)]

BuildCustomFieldsForTransitionResult(fields, configuredFields, order) ==
    IF MapLen(fields) = 0 \/ Len(configuredFields.s) = 0 THEN NilCustomField
    ELSE [isNil |-> FALSE, m |-> BuildLoop(fields, configuredFields.s, order)]

\* ------------------------------------ transitionFieldsMarshaler.MarshalJSON
\* JSON values: a string, a number, an object with one string member, an array of
\* strings, an array of objects with one string member
JString(s) == [t |-> "string", str |-> s, num |-> NoNum, items |-> <<>>, member |-> <<>>]
JNumber(n) == [t |-> "number", str |-> <<>>, num |-> n, items |-> <<>>, member |-> <<>>]
JObject(member, s) == [t |-> "object", str |-> s, num |-> NoNum, items |-> <<>>, member |-> member]
JStrings(items) == [t |-> "strings", str |-> <<>>, num |-> NoNum, items |-> items, member |-> <<>>]
JNull == [t |-> "null", str |-> <<>>, num |-> NoNum, items |-> <<>>, member |-> <<>>]
JObjects(member, items) ==
    [t |-> "objects", str |-> <<>>, num |-> NoNum, items |-> items, member |-> member]

\* TransitionRequestFields: Assignee and Resolution are pointers to a struct with a Name
NilName == [isNil |-> TRUE, Name |-> <<>>]
NameOf(s) == [isNil |-> FALSE, Name |-> s]

StaticFieldsPool ==
    [Assignee : {NilName, NameOf(<<"j", "o">>)}, Resolution : {NilName, NameOf(<<"F", "i", "x">>)}]

\* StaticJSON without omitempty: a nil pointer is written as null
StaticJSONNoOmit(static) ==
    << [key |-> KeyAssignee,
        value |-> IF static.Assignee.isNil THEN JNull ELSE JObject(KeyName, static.Assignee.Name)],
       [key |-> KeyResolution,
        value |-> IF static.Resolution.isNil THEN JNull
                  ELSE JObject(KeyName, static.Resolution.Name)] >>

\* json.Marshal(tfm.M): the exported fields that are set, in declaration order
\* (omitempty drops a nil pointer); the unexported customFields is not encoded
StaticJSON(static) ==
    (IF static.Assignee.isNil THEN <<>>
     ELSE <<[key |-> KeyAssignee, value |-> JObject(KeyName, static.Assignee.Name)]>>) \o
    (IF static.Resolution.isNil THEN <<>>
     ELSE <<[key |-> KeyResolution, value |-> JObject(KeyName, static.Resolution.Name)]>>)

\* Unmarshal whose result is thrown away: the merge starts from an empty map
UnmarshalNothing(members) == [k \in {} |-> JNull]

\* json.Unmarshal into a map[string]interface{}
Unmarshal(members) ==
    [k \in {members[i].key : i \in DOMAIN members} |->
        LET last == CHOOSE i \in DOMAIN members :
                        members[i].key = k /\ \A j \in DOMAIN members : members[j].key = k => j <= i
        IN  members[last].value]

\* a customFieldTypeProject on the wire: an object holding the display value
EncodeProject(v) == JObject(KeyValue, v.str)

\* what encoding/json writes for a value of the custom set
EncodeValue(v) ==
    CASE v.kind = "string" -> JString(v.str)
      [] v.kind = "number" -> JNumber(v.num)
      [] v.kind = "option" -> JObject(KeyValue, v.str)
      [] v.kind = "project" -> EncodeProject(v)
      [] v.kind = "stringlist" -> JStrings(v.items)
      [] v.kind = "optionlist" -> JObjects(KeyValue, v.items)

\* encoding/json refuses NaN and the infinities
Encodable(v) == v.kind = "number" => v.num.cls = "finite"

\* Inject that keeps a key the map already has
InjectIfAbsent(dm, key, val) == dm @@ (key :> val)

\* dm[key] = val
Inject(dm, key, val) == MapPut(dm, key, val)

\* the loop over tfm.M.customFields, visited in `order`
RECURSIVE InjectAll(_, _, _)
InjectAll(dm, customFields, order) ==
    IF order = <<>> THEN dm
    ELSE LET key == order[Len(order)]
         IN  Inject(InjectAll(dm, customFields, SubSeq(order, 1, Len(order) - 1)),
                    key, customFields.m[key])

\* the keys of a map in byte order
RECURSIVE SortedKeys(_)
SortedKeys(S) ==
    IF S = {} THEN <<>>
    ELSE LET least == CHOOSE k \in S : \A j \in S \ {k} : StrLess(k, j)
         IN  <<least>> \o SortedKeys(S \ {least})

\* json.Marshal of a map: one member per key, keys in byte order
EncodeObject(dm) ==
    LET keys == SortedKeys(DOMAIN dm) IN [i \in DOMAIN keys |-> [key |-> keys[i], value |-> dm[keys[i]]]]

MarshalJSONResult(static, customFields, order) ==
    LET dm == InjectAll(Unmarshal(StaticJSON(static)),
                        [customFields EXCEPT !.m = [k \in DOMAIN @ |-> EncodeValue(@[k])]], order)
    IN  IF \E k \in DOMAIN customFields.m : ~Encodable(customFields.m[k])
        THEN [failed |-> TRUE, members |-> <<>>]
        ELSE [failed |-> FALSE, members |-> EncodeObject(dm)]

\* ------------------------------------------------- Client.GetIssueTypeFields
\* errors: nil, or a kind with the values its message is formatted from
NilErr == [isNil |-> TRUE, kind |-> "", args |-> <<>>]
ErrorOf(kind, args) == [isNil |-> FALSE, kind |-> kind, args |-> args]

ErrEmptyResponse == ErrorOf("ErrEmptyResponse", <<>>)
ErrTransport == ErrorOf("transport", <<>>)         \* what c.GetV2 fails with
ErrDecode == ErrorOf("decode", <<>>)               \* what json Decode fails with
StatusOK == 200
StatusNotFound == 404
formatUnexpectedResponse(res) == ErrorOf("unexpected response", <<res.StatusCode>>)

NilResponse == [isNil |-> TRUE, StatusCode |-> 0, decodeErr |-> NilErr, Projects |-> <<>>]
Response(status, decodeErr, projects) ==
    [isNil |-> FALSE, StatusCode |-> status, decodeErr |-> decodeErr, Projects |-> projects]

CreateMetaRequest(projects, expand) == [Projects |-> projects, Expand |-> expand]

ExpandFields == "projects.issuetypes.fields"

\* GetCreateMeta against a remote that answers c.GetV2 with remote.res and remote.err:
\* the decoded response (nil before decoding) and the error
GetCreateMeta(req, remote) ==
    IF ~remote.err.isNil THEN [isNil |-> TRUE, Projects |-> <<>>, err |-> remote.err]
    ELSE IF remote.res.isNil THEN [isNil |-> TRUE, Projects |-> <<>>, err |-> ErrEmptyResponse]
    ELSE IF remote.res.StatusCode # StatusOK
    THEN [isNil |-> TRUE, Projects |-> <<>>, err |-> formatUnexpectedResponse(remote.res)]
    ELSE [isNil |-> FALSE, Projects |-> remote.res.Projects, err |-> remote.res.decodeErr]

\* index of the first issue type of the list with the ID, 0 when there is none
FirstWithID(issueTypes, issueTypeID) ==
    IF \E i \in DOMAIN issueTypes : issueTypes[i].ID = issueTypeID
    THEN CHOOSE i \in DOMAIN issueTypes :
            /\ issueTypes[i].ID = issueTypeID
            /\ \A j \in 1..(i - 1) : issueTypes[j].ID # issueTypeID
    ELSE 0

\* the values of the map issueType.Fields, appended in the order a range over the
\* map visits its keys; `order` ranks every key a map may have
FieldsInOrder(fields, order) ==
    LET visited == SelectSeq(order, LAMBDA k : k \in DOMAIN fields)
    IN  [n \in DOMAIN visited |-> fields[visited[n]]]

\* the issue types of every project of the response, one list
RECURSIVE AllIssueTypes(_)
AllIssueTypes(projects) ==
    IF projects = <<>> THEN <<>> ELSE Head(projects).IssueTypes \o AllIssueTypes(Tail(projects))

\* GetIssueTypeFieldsResult looking for the issue type in every project
GetIssueTypeFieldsAnyProject(project, issueTypeID, remote, order) ==
    LET req == CreateMetaRequest(project, ExpandFields)
        meta == GetCreateMeta(req, remote)
    IN  IF ~meta.err.isNil THEN [fields |-> NilSlice, err |-> meta.err, requests |-> <<req>>]
        ELSE IF Len(meta.Projects) = 0
        THEN [fields |-> NilSlice, err |-> ErrorOf("no project found for key: %s", <<project>>),
              requests |-> <<req>>]
        ELSE LET issueTypes == AllIssueTypes(meta.Projects)
                 i == FirstWithID(issueTypes, issueTypeID)
             IN  IF i # 0
                 THEN [fields |-> MakeSlice(FieldsInOrder(issueTypes[i].Fields, order)),
                       err |-> NilErr, requests |-> <<req>>]
                 ELSE [fields |-> NilSlice,
                       err |-> ErrorOf("issue type with ID %s not found in project %s",
                                       <<issueTypeID, project>>),
                       requests |-> <<req>>]

\* the field list, the error and the requests made
GetIssueTypeFieldsResult(project, issueTypeID, remote, order) ==
    LET req == CreateMetaRequest(project, ExpandFields)
        meta == GetCreateMeta(req, remote)
    IN  IF ~meta.err.isNil THEN [fields |-> NilSlice, err |-> meta.err, requests |-> <<req>>]
        ELSE IF Len(meta.Projects) = 0
        THEN [fields |-> NilSlice, err |-> ErrorOf("no project found for key: %s", <<project>>),
              requests |-> <<req>>]
        ELSE LET issueTypes == meta.Projects[1].IssueTypes
                 i == FirstWithID(issueTypes, issueTypeID)
             IN  IF i # 0
                 THEN [fields |-> MakeSlice(FieldsInOrder(issueTypes[i].Fields, order)),
                       err |-> NilErr, requests |-> <<req>>]
                 ELSE [fields |-> NilSlice,
                       err |-> ErrorOf("issue type with ID %s not found in project %s",
                                       <<issueTypeID, project>>),
                       requests |-> <<req>>]

\* ------------------------------------------------------------------ state
VARIABLES
    requested,          \* the --custom flag: map[string]string
    configuredFields,   \* GetConfiguredCustomFields()
    available,          \* the remote field list handed to strict validation
    issueTypeName,      \* the issue type strict validation was called for
    warning,            \* what ValidateCustomFields printed
    strict,             \* what ValidateAndFilterCustomFields returned
    built,              \* what BuildCustomFieldsForTransition returned
    static,             \* the TransitionRequestFields handed to the marshaler
    payload,            \* what MarshalJSON returned
    classification,     \* one raw value, one schema and the typed value the switch gave
    remote,             \* what c.GetV2 answers the createmeta request with
    lookup              \* what GetIssueTypeFields was called with and returned

vars == <<requested, configuredFields, available, issueTypeName, warning, strict, built,
          static, payload, classification, remote, lookup>>

NotClassified ==
    [called |-> FALSE, val |-> <<>>, configured |-> Field(<<>>, <<>>, "", ""),
     result |-> TypedValue("string", <<>>, NoNum, <<>>)]

NothingCalled ==
    /\ available = NilSlice
    /\ issueTypeName = <<>>
    /\ warning = [called |-> FALSE, warned |-> FALSE, names |-> <<>>]
    /\ strict = [called |-> FALSE, filtered |-> NilMap, err |-> NoError]
    /\ built = [called |-> FALSE, isNil |-> TRUE, m |-> EmptyKV]
    /\ static = [Assignee |-> NilName, Resolution |-> NilName]
    /\ payload = [called |-> FALSE, failed |-> FALSE, members |-> <<>>]

NothingClassified == classification = NotClassified

Remote(err, res) == [err |-> err, res |-> res]

\* the answers of the remote: a transport error, no response, a status other than
\* 200, a body that fails to decode, a decoded list of projects
Remotes ==
    { Remote(ErrTransport, NilResponse),
      Remote(NilErr, NilResponse),
      Remote(NilErr, Response(StatusNotFound, NilErr, <<>>)) }
    \cup {Remote(NilErr, Response(StatusOK, e, pl)) : e \in {NilErr, ErrDecode}, pl \in ProjectLists}

NotLookedUp ==
    [called |-> FALSE, project |-> <<>>, issueTypeID |-> <<>>, fields |-> NilSlice,
     err |-> NilErr, requests |-> <<>>]

NothingFetched ==
    /\ remote = Remote(NilErr, NilResponse)
    /\ lookup = NotLookedUp

Init ==
    /\ requested \in MapsOver(RequestedNames, RawValues)
    /\ configuredFields \in SlicesOver(ConfiguredPool)
    /\ NothingCalled
    /\ NothingClassified
    /\ NothingFetched

InitTransition ==
    /\ requested \in MapsOver(TransitionNames, TransitionValues)
    /\ configuredFields \in SlicesOver(TransitionPool)
    /\ NothingCalled
    /\ NothingClassified
    /\ NothingFetched

\* one value and one schema about to go through the switch
InitClassify ==
    /\ requested = NilMap
    /\ configuredFields = NilSlice
    /\ NothingCalled
    /\ classification \in {[NotClassified EXCEPT !.val = v, !.configured = c] :
                              v \in ClassifyValues, c \in ClassifySchemas}
    /\ NothingFetched

\* a remote about to be asked for the fields of an issue type
InitLookup ==
    /\ requested = NilMap
    /\ configuredFields = NilSlice
    /\ NothingCalled
    /\ NothingClassified
    /\ remote \in Remotes
    /\ lookup = NotLookedUp

\* ---------------------------------------------------------------- actions
ValidateCustomFields ==
    /\ ~warning.called
    /\ \E order \in Orders(DOMAIN requested.kv) :
          LET r == ValidateCustomFieldsResult(requested, configuredFields, order)
          IN  warning' = [called |-> TRUE, warned |-> r.warned, names |-> r.names]
    /\ UNCHANGED <<requested, configuredFields, available, issueTypeName, strict, built,
                   static, payload, classification, remote, lookup>>

ValidateAndFilterCustomFields ==
    /\ ~strict.called
    /\ \E a \in AvailableSlices, name \in IssueTypeNames, order \in Orders(DOMAIN requested.kv) :
          LET r == ValidateAndFilterCustomFieldsResult(requested, a, configuredFields, name, order)
          IN  /\ available' = a
              /\ issueTypeName' = name
              /\ strict' = [called |-> TRUE, filtered |-> r.filtered, err |-> r.err]
    /\ UNCHANGED <<requested, configuredFields, warning, built, static, payload,
                   classification, remote, lookup>>

BuildCustomFieldsForTransition ==
    /\ ~built.called
    /\ \E order \in Orders(DOMAIN requested.kv) :
          LET r == BuildCustomFieldsForTransitionResult(requested, configuredFields, order)
          IN  built' = [called |-> TRUE, isNil |-> r.isNil, m |-> r.m]
    /\ UNCHANGED <<requested, configuredFields, available, issueTypeName, warning, strict,
                   static, payload, classification, remote, lookup>>

\* NewTransitionFieldsMarshaler(fields, customFields) followed by json.Marshal
MarshalJSON ==
    /\ built.called
    /\ ~payload.called
    /\ \E fields \in StaticFieldsPool, order \in Orders(DOMAIN built.m) :
          LET r == MarshalJSONResult(fields, [isNil |-> built.isNil, m |-> built.m], order)
          IN  /\ static' = fields
              /\ payload' = [called |-> TRUE, failed |-> r.failed, members |-> r.members]
    /\ UNCHANGED <<requested, configuredFields, available, issueTypeName, warning, strict,
                   built, classification, remote, lookup>>

\* BuildCustomFieldsForTransition called with the map strict validation returned and
\* the configured list strict validation was given
BuildFiltered ==
    /\ strict.called /\ strict.err.isNil
    /\ ~built.called
    /\ \E order \in Orders(DOMAIN strict.filtered.kv) :
          LET r == BuildCustomFieldsForTransitionResult(strict.filtered, configuredFields, order)
          IN  built' = [called |-> TRUE, isNil |-> r.isNil, m |-> r.m]
    /\ UNCHANGED <<requested, configuredFields, available, issueTypeName, warning, strict,
                   static, payload, classification, remote, lookup>>

\* the switch of the Builder applied to one value under one schema
ClassifyValue ==
    /\ ~classification.called
    /\ classification' = [classification EXCEPT
                              !.called = TRUE,
                              !.result = Classify(classification.val, classification.configured)]
    /\ UNCHANGED <<requested, configuredFields, available, issueTypeName, warning, strict,
                   built, static, payload, remote, lookup>>

\* GetIssueTypeFields(project, issueTypeID) against the remote
GetIssueTypeFields ==
    /\ ~lookup.called
    /\ \E project \in ProjectKeys, issueTypeID \in IssueTypeIDs, order \in Orders(FieldKeys) :
          LET r == GetIssueTypeFieldsResult(project, issueTypeID, remote, order)
          IN  lookup' = [called |-> TRUE, project |-> project, issueTypeID |-> issueTypeID,
                         fields |-> r.fields, err |-> r.err, requests |-> r.requests]
    /\ UNCHANGED <<requested, configuredFields, available, issueTypeName, warning, strict,
                   built, static, payload, classification, remote>>

Next == ValidateCustomFields \/ ValidateAndFilterCustomFields

Spec == Init /\ [][Next]_vars

\* building the custom field set of a transition and marshaling its fields
NextTransition == BuildCustomFieldsForTransition \/ MarshalJSON

SpecTransition == InitTransition /\ [][NextTransition]_vars

\* the move command: ValidateCustomFields, BuildCustomFieldsForTransition,
\* NewTransitionFieldsMarshaler, Transition
NextMove == ValidateCustomFields \/ BuildCustomFieldsForTransition \/ MarshalJSON

SpecMove == Init /\ [][NextMove]_vars

\* strict validation followed by the Builder on what it let through
NextStrict == ValidateAndFilterCustomFields \/ BuildFiltered

SpecStrict == Init /\ [][NextStrict]_vars

\* the classification of one raw value
NextClassify == ClassifyValue

SpecClassify == InitClassify /\ [][NextClassify]_vars

\* the remote schema lookup
NextLookup == GetIssueTypeFields

SpecLookup == InitLookup /\ [][NextLookup]_vars

\* ------------------------------------------------- vocabulary of the claims
RequestedSet == DOMAIN requested.kv

\* the configured schemas whose identifier is the lowercased requested name
SchemasFor(n) ==
    {i \in DOMAIN configuredFields.s : Identifier(configuredFields.s[i].Name) = ToLower(n)}

Last(S) == CHOOSE i \in S : \A j \in S : j <= i
First(S) == CHOOSE i \in S : \A j \in S : i <= j

Unknown(n) == SchemasFor(n) = {}

\* the remote key the identifier lookup resolves a configured name to
ResolvedKey(n) == configuredFields.s[Last(SchemasFor(n))].Key

Unavailable(n) ==
    ~Unknown(n) /\ \A i \in DOMAIN available.s : available.s[i].Key # ResolvedKey(n)

Invalid(n) == Unknown(n) \/ Unavailable(n)

StrictFailed == strict.called /\ ~strict.err.isNil

\* text `sub` occurs in text `s`
Occurs(sub, s) == \E i \in 1..(Len(s) - Len(sub) + 1) : SubSeq(s, i, i + Len(sub) - 1) = sub

\* ------------------------------------------------------------------ claims
\* C1: strict validation is all-or-nothing.  With an invalid requested name it returns
\* a nil filtered map and a non-nil error, never a part of the map; with none it
\* returns a nil error and exactly the requested name/value pairs.
C1_AllOrNothing ==
    strict.called =>
        IF \E n \in RequestedSet : Invalid(n)
        THEN strict.filtered.isNil /\ DOMAIN strict.filtered.kv = {} /\ ~strict.err.isNil
        ELSE /\ strict.err.isNil
             /\ DOMAIN strict.filtered.kv = RequestedSet
             /\ \A n \in RequestedSet : strict.filtered.kv[n] = requested.kv[n]

\* a failed validation of a map that also holds a valid name
C1_Witness ==
    /\ StrictFailed
    /\ \E n \in RequestedSet : ~Invalid(n)
    /\ \E n \in RequestedSet : Invalid(n)

C5_SameUnknownNames ==
    (warning.called /\ strict.called) =>
        /\ Range(warning.names) =
              {n \in RequestedSet : ~StrictKnows(ConfiguredMap(configuredFields.s), n)}
        /\ (strict.err.isNil => ~warning.warned)


\* C4: a requested name the lenient check warns about matches no configured schema in
\* the Builder called with the same arguments, so it adds no entry to the custom
\* field set; the lenient check returns nothing and the operation goes on.
C4_WarnedNamesAreDropped ==
    (warning.called /\ built.called) =>
        \A n \in Range(warning.names) :
            /\ SchemasFor(n) = {}
            /\ RequestedSet = {n} => DOMAIN built.m = {}

\* the keys of the configured schemas some requested name matches
MatchedKeys == {configuredFields.s[i].Key : i \in UNION {SchemasFor(n) : n \in RequestedSet}}

Built == built.called /\ ~built.isNil

C7_FirstSchemaWins ==
    Built =>
        LET matched == {n \in RequestedSet : ~Unknown(n)}
            first(n) == configuredFields.s[First(SchemasFor(n))]
        IN  /\ DOMAIN built.m = {first(n).Key : n \in matched}
            /\ \A k \in DOMAIN built.m :
                  \E n \in matched :
                      first(n).Key = k /\ built.m[k] = Classify(requested.kv[n], first(n))

\* C7 amended: every configured schema whose identifier equals the normalized name
\* contributes an entry under its own key, classified with its own data type; when
\* schemas matching a name share a key, the last of them in list order gives the value.
C7_EverySchemaContributes ==
    Built =>
        /\ \A n \in RequestedSet : \A i \in SchemasFor(n) :
              configuredFields.s[i].Key \in DOMAIN built.m
        /\ \A k \in DOMAIN built.m :
              \E n \in RequestedSet :
                  LET sameKey == {j \in SchemasFor(n) : configuredFields.s[j].Key = k}
                  IN  /\ sameKey # {}
                      /\ built.m[k] = Classify(requested.kv[n], configuredFields.s[Last(sameKey)])

\* one requested name, two schemas with its identifier and different keys, both built
C7_Witness ==
    /\ Built
    /\ \E n \in RequestedSet : \E i, j \in SchemasFor(n) :
          /\ i < j
          /\ configuredFields.s[i].Key # configuredFields.s[j].Key
          /\ {configuredFields.s[i].Key, configuredFields.s[j].Key} \subseteq DOMAIN built.m

Marshaled == payload.called /\ ~payload.failed

MemberKeys == {payload.members[i].key : i \in DOMAIN payload.members}

HasMember(k, v) == \E i \in DOMAIN payload.members : payload.members[i] = [key |-> k, value |-> v]

\* C8: the payload is one flat object: every custom key is a top-level member beside
\* the static keys and nothing is wrapped; an unset static field is left out and
\* never written as null; a set static field whose key is no custom key keeps its
\* static value.
C8_FlatMerge ==
    Marshaled =>
        /\ \A k \in DOMAIN built.m : HasMember(k, EncodeValue(built.m[k]))
        /\ MemberKeys \subseteq DOMAIN built.m \cup {KeyAssignee, KeyResolution}
        /\ \A i \in DOMAIN payload.members : payload.members[i].value.t # "null"
        /\ (static.Assignee.isNil /\ KeyAssignee \notin DOMAIN built.m) => KeyAssignee \notin MemberKeys
        /\ (static.Resolution.isNil /\ KeyResolution \notin DOMAIN built.m) =>
              KeyResolution \notin MemberKeys
        /\ (~static.Assignee.isNil /\ KeyAssignee \notin DOMAIN built.m) =>
              HasMember(KeyAssignee, JObject(KeyName, static.Assignee.Name))
        /\ (~static.Resolution.isNil /\ KeyResolution \notin DOMAIN built.m) =>
              HasMember(KeyResolution, JObject(KeyName, static.Resolution.Name))

\* a payload with custom fields, one static field set and the other unset
C8_Witness ==
    /\ Marshaled
    /\ DOMAIN built.m # {} /\ KeyAssignee \notin DOMAIN built.m
    /\ ~static.Assignee.isNil /\ static.Resolution.isNil

\* C9: with a nil and with an empty custom field set the payload is the encoding of
\* the static fields alone.
C9_EmptyMergeIsNoOp ==
    (payload.called /\ DOMAIN built.m = {}) =>
        /\ ~payload.failed
        /\ payload.members = StaticJSON(static)
        /\ MarshalJSONResult(static, NilCustomField, <<>>).members = payload.members
        /\ MarshalJSONResult(static, [isNil |-> FALSE, m |-> EmptyKV], <<>>).members = payload.members

\* a payload marshaled from an empty, non-nil custom field set and a set static field
C9_Witness ==
    /\ payload.called
    /\ ~built.isNil /\ DOMAIN built.m = {}
    /\ ~static.Assignee.isNil

\* C10: a custom key equal to a static key takes the custom value and occurs once in
\* the payload, whatever order the custom set is visited in.
C10_CustomWinsOnCollision ==
    Marshaled =>
        /\ \A k \in DOMAIN built.m \cap {KeyAssignee, KeyResolution} :
              /\ HasMember(k, EncodeValue(built.m[k]))
              /\ Cardinality({i \in DOMAIN payload.members : payload.members[i].key = k}) = 1
        /\ \A order \in Orders(DOMAIN built.m) :
              MarshalJSONResult(static, [isNil |-> built.isNil, m |-> built.m], order).members
                  = payload.members

\* a custom assignee key merged over a set static assignee, with another custom key
C10_Witness ==
    /\ Marshaled
    /\ KeyAssignee \in DOMAIN built.m /\ ~static.Assignee.isNil
    /\ Cardinality(DOMAIN built.m) > 1

\* C11: the Builder returns the nil custom field set whenever the requested map is
\* nil or empty, or the configured list is nil or empty, whatever the other holds;
\* with both non-empty it returns a set that is not nil, even one without entries.
C11_NilOnEmptyInput ==
    built.called =>
        /\ (requested.isNil \/ DOMAIN requested.kv = {}) => (built.isNil /\ DOMAIN built.m = {})
        /\ (configuredFields.isNil \/ configuredFields.s = <<>>) =>
              (built.isNil /\ DOMAIN built.m = {})
        /\ (DOMAIN requested.kv # {} /\ configuredFields.s # <<>>) => ~built.isNil

\* the Builder called with a requested name that is configured nowhere because the
\* configured list is empty
C11_Witness ==
    /\ built.called /\ built.isNil
    /\ DOMAIN requested.kv # {}
    /\ ~configuredFields.isNil /\ configuredFields.s = <<>>

Classified == classification.called

\* the positions of the commas of a text, and its n-th comma-separated piece
Commas(s) == {i \in DOMAIN s : s[i] = ","}

CommaNo(s, n) ==
    IF n = 0 THEN 0
    ELSE IF n > Cardinality(Commas(s)) THEN Len(s) + 1
    ELSE CHOOSE p \in Commas(s) : Cardinality({q \in Commas(s) : q <= p}) = n

Piece(s, n) == SubSeq(s, CommaNo(s, n - 1) + 1, CommaNo(s, n) - 1)

AllDigits(s) == \A i \in DOMAIN s : s[i] \in {"0", "1", "2", "3", "4", "5", "6", "7", "8", "9"}

Unsigned(s) == IF s # <<>> /\ Head(s) \in {"+", "-"} THEN Tail(s) ELSE s

\* digits with at most one point and at least one digit
DecimalMantissa(s) ==
    \/ s # <<>> /\ AllDigits(s)
    \/ \E d \in DOMAIN s :
          /\ s[d] = "."
          /\ AllDigits(SubSeq(s, 1, d - 1)) /\ AllDigits(SubSeq(s, d + 1, Len(s)))
          /\ Len(s) > 1

\* a decimal number: [sign] mantissa [e [sign] digits]
IsDecimalNumber(s) ==
    LET body == Unsigned(s)
    IN  \/ DecimalMantissa(body)
        \/ \E e \in DOMAIN body :
              /\ body[e] \in {"e", "E"}
              /\ DecimalMantissa(SubSeq(body, 1, e - 1))
              /\ LET digits == Unsigned(SubSeq(body, e + 1, Len(body)))
                 IN  digits # <<>> /\ AllDigits(digits)

\* C12: classification is total and directed by the data type alone: it yields one
\* typed value of a known kind for every value and schema; option and project wrap the
\* raw string untrimmed and unchanged; a data type other than option, project, array
\* and number, empty and unknown ones included, yields the raw string as a scalar.
C12_TotalTypeDirected ==
    Classified =>
        LET val == classification.val
            dataType == classification.configured.DataType
            result == classification.result
        IN  /\ result.kind \in {"string", "number", "option", "project", "optionlist", "stringlist"}
            /\ dataType = "option" => result = [kind |-> "option", str |-> val, num |-> NoNum, items |-> <<>>]
            /\ dataType = "project" => result = [kind |-> "project", str |-> val, num |-> NoNum, items |-> <<>>]
            /\ dataType \notin {"option", "project", "array", "number"} =>
                  result = [kind |-> "string", str |-> val, num |-> NoNum, items |-> <<>>]
            /\ result.kind \in {"option", "project"} <=> dataType \in {"option", "project"}

\* an option classified from a value with a leading space
C12_Witness ==
    /\ Classified
    /\ classification.configured.DataType = "option"
    /\ classification.val = <<" ", "5">>
    /\ classification.result.str = <<" ", "5">>

\* C13: for an array the raw value is split on commas and every piece is trimmed; the
\* list has one element per comma-separated piece, in the original order; it is a
\* list of options exactly when the item type is option, else a list of strings.
C13_ArraySplitTrim ==
    (Classified /\ classification.configured.DataType = "array") =>
        LET val == classification.val
            result == classification.result
        IN  /\ result.kind = IF classification.configured.Items = "option"
                             THEN "optionlist" ELSE "stringlist"
            /\ Len(result.items) = Cardinality(Commas(val)) + 1
            /\ \A n \in DOMAIN result.items : result.items[n] = TrimSpace(Piece(val, n))
            /\ result.str = <<>> /\ result.num = NoNum

\* a list of options classified from two pieces with spaces around them
C13_Witness ==
    /\ Classified
    /\ classification.configured.DataType = "array"
    /\ classification.configured.Items = "option"
    /\ classification.val = <<" ", "a", " ", ",", "b", " ">>
    /\ classification.result.items = << <<"a">>, <<"b">> >>

\* C14: for a number a numeric value is produced only when the raw string is a valid
\* decimal number; every other raw string falls back to the scalar holding the
\* original string unchanged, and classification reports no error.
C14_NumberOnlyForDecimal ==
    (Classified /\ classification.configured.DataType = "number") =>
        LET val == classification.val
            result == classification.result
        IN  /\ result.kind \in {"number", "string"}
            /\ result.kind = "number" => IsDecimalNumber(val)
            /\ ~IsDecimalNumber(val) =>
                  result = [kind |-> "string", str |-> val, num |-> NoNum, items |-> <<>>]

\* the requested names that normalize to the same identifier as n
Colliding(n) == {o \in RequestedSet : ToLower(o) = ToLower(n)}

\* the requested names that match a configured schema with key k
NamesFor(k) == {n \in RequestedSet : \E i \in SchemasFor(n) : configuredFields.s[i].Key = k}

\* the value name n leaves under key k when it is processed
ValueFrom(n, k) ==
    Classify(requested.kv[n],
             configuredFields.s[Last({j \in SchemasFor(n) : configuredFields.s[j].Key = k})])

\* the element of S that comes last in order
LastIn(order, S) == order[Last({p \in DOMAIN order : order[p] \in S})]

\* the requested map without name o
Without(o) == MakeMap([n \in RequestedSet \ {o} |-> requested.kv[n]])

C16_OnlyAvailableKeysBuilt ==
    (strict.called /\ strict.err.isNil /\ built.called) =>
        \A k \in DOMAIN built.m : \E i \in DOMAIN available.s : available.s[i].Key = k

\* the metadata fetch gave a decoded response and no error
FetchSucceeded ==
    /\ remote.err.isNil
    /\ ~remote.res.isNil
    /\ remote.res.StatusCode = 200
    /\ remote.res.decodeErr.isNil

\* the issue types of the first project that have the ID looked up
Wanted ==
    IF FetchSucceeded /\ remote.res.Projects # <<>>
    THEN {i \in DOMAIN remote.res.Projects[1].IssueTypes :
             remote.res.Projects[1].IssueTypes[i].ID = lookup.issueTypeID}
    ELSE {}

\* how often value v occurs in sequence s
Count(s, v) == Cardinality({i \in DOMAIN s : s[i] = v})

====
